---- MODULE Spec2Model ----
(***************************************************************************)
(* Model of src/interaction.rs: the typed option accessors                 *)
(* (InteractionCustomGet) and the reply helper (BetterResponse) that the   *)
(* crate adds to serenity's ApplicationCommandInteraction.                 *)
(*                                                                         *)
(* An interaction's payload is `interaction.data.options`, an ordered tree *)
(* of CommandDataOption nodes.  Every accessor is a pure function of that  *)
(* tree; a behaviour of the model is one command handler receiving one     *)
(* payload and invoking one operation on it.                               *)
(***************************************************************************)
EXTENDS Integers, Sequences, FiniteSets, TLC

VARIABLES
  options,     \* interaction.data.options: Seq(CommandDataOption)
  pc,          \* "idle" | "awaiting" (reply suspended at .await) | "done"
  op,          \* the operation the handler invoked
  arg,         \* the name argument of a named-lookup accessor
  result,      \* what the operation did: Returned(v) or Panicked(msg)
  http_calls,  \* calls made to create_interaction_response
  response,    \* what create_interaction_response resolved to
  log          \* lines written through tracing::error!

vars == <<options, pc, op, arg, result, http_calls, response, log>>

----------------------------------------------------------------------------
(* Bounds and the value universe                                           *)

\* The most option nodes (at every nesting level together) in one payload.
MaxNodes == 3

\* Option names occurring in payloads and in requests.
Names == {"a", "b"}

\* CommandOptionType: the two structural kinds.
SubCommand == "SubCommand"
SubCommandGroup == "SubCommandGroup"
StructuralKinds == {SubCommand, SubCommandGroup}

\* The kinds (and resolved-value tags) that value options of the generated
\* payloads carry.  The accessors of the six other kinds run on the same
\* payloads and find no option of their kind.
PayloadKinds == {"String", "Integer"}

\* Rust's Option<T>.
None == [is_some |-> FALSE]
Some(x) == [is_some |-> TRUE, value |-> x]

\* How a call ends: it returns a value, or the thread panics.
Returned(v) == [outcome |-> "returned", ret |-> v]
Panicked(msg) == [outcome |-> "panicked", msg |-> msg]

UnwrapNone == "called Option::unwrap() on a None value"
NoResolved == "No resolved value exists"

----------------------------------------------------------------------------
(* Payloads: every option tree of at most MaxNodes nodes                   *)

\* A CommandDataOption.  The field resolved is Option<CommandDataOptionValue>; a
\* CommandDataOptionValue is a tag with its payload.
Option(name, kind, children, resolved) ==
  [name |-> name, kind |-> kind, options |-> children, resolved |-> resolved]

\* Value options before their payloads are filled in: any name, any kind, and
\* a resolved value that is missing, or tagged with the kind of the option, or
\* tagged with another kind (the type allows all three).
ValueOptions ==
  { Option(n, k, <<>>, r) :
      n \in Names, k \in PayloadKinds,
      r \in {None} \cup { Some([tag |-> t, payload |-> 0]) : t \in PayloadKinds } }

\* The unnamed structural options, which nest further options.
StructuralOptions == { Option("cmd", k, <<>>, None) : k \in StructuralKinds }

\* Gives a node a distinct identity from its position: the payload of a value
\* option is its path (12 = second child of the first top-level option), a
\* structural option is named after its path.
Place(o, path) ==
  IF o.kind \in StructuralKinds
  THEN Option("cmd" \o ToString(path), o.kind, o.options, o.resolved)
  ELSE Option(o.name, o.kind, o.options,
              IF o.resolved.is_some
              THEN Some([tag |-> o.resolved.value.tag, payload |-> path])
              ELSE None)

RECURSIVE Levels(_)
RECURSIVE AppendAt(_, _, _, _)
RECURSIVE Payload(_, _)

\* The nesting levels at which the next option in document order can go: the
\* top level, and one level further for every structural option that is the
\* last of its list.
Levels(list) ==
  IF Len(list) > 0 /\ list[Len(list)].kind \in StructuralKinds
  THEN 1 + Levels(list[Len(list)].options)
  ELSE 1

\* The list with o added as the last option at nesting level d.
AppendAt(list, prefix, o, d) ==
  IF d = 1
  THEN Append(list, Place(o, 10 * prefix + Len(list) + 1))
  ELSE [list EXCEPT ![Len(list)].options =
          AppendAt(@, 10 * prefix + Len(list), o, d - 1)]

\* options is list, or list followed by at most n further options.  Every
\* option tree of at most MaxNodes nodes arises exactly once.
Payload(list, n) ==
  \/ options = list
  \/ /\ n > 0
     /\ \E o \in ValueOptions \cup StructuralOptions :
          \E d \in 1..Levels(list) : Payload(AppendAt(list, 0, o, d), n - 1)

----------------------------------------------------------------------------
(* get_value and the accessors                                             *)

\* Iterator::find, given the value of the predicate on each element in turn:
\* the index of the first element that satisfies it, 0 if there is none.
Find(hits) ==
  IF \E i \in 1..Len(hits) : hits[i]
  THEN CHOOSE i \in 1..Len(hits) : hits[i] /\ \A j \in 1..(i - 1) : ~hits[j]
  ELSE 0

\* Hoist without the SubCommand arm: a leading SubCommand is not entered.
HoistSkipsSubCommand(opts) ==
  IF Len(opts) > 0
  THEN LET option == opts[1]
       IN CASE option.kind = SubCommandGroup ->
                 IF Len(option.options) > 0
                 THEN Returned(option.options[1].options)
                 ELSE Panicked(UnwrapNone)
            [] OTHER -> Returned(opts)
  ELSE Returned(opts)

\* Hoist entering a leading SubCommandGroup by one level only.
HoistStopsAtGroup(opts) ==
  IF Len(opts) > 0
  THEN LET option == opts[1]
       IN CASE option.kind \in StructuralKinds -> Returned(option.options)
            [] OTHER -> Returned(opts)
  ELSE Returned(opts)

\* get_value, lines 51-57 ("Hoist options"): the list that is searched, or a
\* panic when a leading SubCommandGroup has no first child to unwrap.
Hoist(opts) ==
  IF Len(opts) > 0
  THEN LET option == opts[1]
       IN CASE option.kind = SubCommand -> Returned(option.options)
            [] option.kind = SubCommandGroup ->
                 IF Len(option.options) > 0
                 THEN Returned(option.options[1].options)
                 ELSE Panicked(UnwrapNone)
            [] OTHER -> Returned(opts)
  ELSE Returned(opts)

\* Matches without the comparison of names.
MatchesKindOnly(option, name, kind) == option.kind = kind

\* Matches without the comparison of kinds.
MatchesNameOnly(option, name, kind) == option.name = name

\* get_value, line 59: the predicate handed to find.
Matches(option, name, kind) == option.kind = kind /\ option.name = name

\* Search passing over the options that carry no resolved value.
SearchSkipsUnresolved(list, name, kind) ==
  LET i == Find([j \in 1..Len(list) |->
                   Matches(list[j], name, kind) /\ list[j].resolved.is_some])
  IN IF i # 0 THEN Returned(Some(list[i].resolved.value)) ELSE Returned(None)

\* get_value, lines 59-62: find the option, expect its resolved value.
Search(list, name, kind) ==
  LET i == Find([j \in 1..Len(list) |-> Matches(list[j], name, kind)])
  IN IF i # 0
     THEN IF list[i].resolved.is_some
          THEN Returned(Some(list[i].resolved.value))
          ELSE Panicked(NoResolved)
     ELSE Returned(None)

get_value(opts, name, kind) ==
  LET hoisted == Hoist(opts)
  IN IF hoisted.outcome = "panicked" THEN hoisted
     ELSE Search(hoisted.ret, name, kind)

\* The pattern if let Some(CommandDataOptionValue::Tag(value)) = get_value(..)
\* of every accessor: the payload when the tag is the expected one.
Extract(got, tag) ==
  IF got.outcome = "panicked" THEN got
  ELSE IF got.ret.is_some /\ got.ret.value.tag = tag
       THEN Returned(Some(got.ret.value.payload))
       ELSE Returned(None)

get_string(opts, name) == Extract(get_value(opts, name, "String"), "String")
get_integer(opts, name) == Extract(get_value(opts, name, "Integer"), "Integer")
get_bool(opts, name) == Extract(get_value(opts, name, "Boolean"), "Boolean")
get_user(opts, name) == Extract(get_value(opts, name, "User"), "User")
get_channel(opts, name) == Extract(get_value(opts, name, "Channel"), "Channel")
get_role(opts, name) == Extract(get_value(opts, name, "Role"), "Role")
get_number(opts, name) == Extract(get_value(opts, name, "Number"), "Number")
get_attachment(opts, name) == Extract(get_value(opts, name, "Attachment"), "Attachment")

\* FirstOfKind taking the last element of the kind instead.
LastOfKind(list, kind) ==
  LET found == { i \in 1..Len(list) : list[i].kind = kind }
  IN IF found # {}
     THEN Some(list[CHOOSE i \in found : \A j \in found : j <= i])
     ELSE None

\* The first element of the given kind, as Option<CommandDataOption>.
FirstOfKind(list, kind) ==
  LET i == Find([j \in 1..Len(list) |-> list[j].kind = kind])
  IN IF i # 0 THEN Some(list[i]) ELSE None

\* Hoisted with the children of the group ahead of the top-level options.
HoistedGroupFirst(opts) ==
  LET group == FirstOfKind(opts, SubCommandGroup)
  IN IF group.is_some THEN group.value.options \o opts ELSE opts

\* get_subcommand, lines 68-72: the top-level options, followed by the
\* children of the first top-level SubCommandGroup when there is one.
Hoisted(opts) ==
  LET group == FirstOfKind(opts, SubCommandGroup)
  IN IF group.is_some THEN opts \o group.value.options ELSE opts

get_subcommand(opts) == Returned(FirstOfKind(Hoisted(opts), SubCommand))

\* get_subcommand_group hoisting the children of a SubCommand the way
\* get_subcommand hoists those of a SubCommandGroup.
get_subcommand_group_hoisting(opts) ==
  LET sub == FirstOfKind(opts, SubCommand)
  IN Returned(FirstOfKind(IF sub.is_some THEN opts \o sub.value.options ELSE opts,
                          SubCommandGroup))

get_subcommand_group(opts) == Returned(FirstOfKind(opts, SubCommandGroup))

----------------------------------------------------------------------------
(* reply                                                                   *)

OkUnit == "Ok(())"

\* Lines 29-30: what reply writes to the log once the call has resolved.
ReplyLog(resp) ==
  IF resp = "Err"
  THEN <<"Encountered an error while reponding to chat command">>
  ELSE <<>>

\* reply handing the error of the call to its caller.
ReplyResultPropagates(resp) ==
  IF resp = "Err" THEN Returned("Err") ELSE Returned(OkUnit)

\* Line 32: what reply returns once the call has resolved.
ReplyResult(resp) == Returned(OkUnit)

\* Whether reply calls create_interaction_response again after a response.
ReplyRetries(resp) == FALSE

----------------------------------------------------------------------------
(* The state machine                                                       *)

Init ==
  /\ Payload(<<>>, MaxNodes)
  /\ pc = "idle"
  /\ op = "none"
  /\ arg = "none"
  /\ result = Returned(None)
  /\ http_calls = 0
  /\ response = "none"
  /\ log = <<>>

\* A synchronous accessor runs to completion in one step.
Finish(operation, name, outcome) ==
  /\ pc = "idle"
  /\ pc' = "done"
  /\ op' = operation
  /\ arg' = name
  /\ result' = outcome
  /\ UNCHANGED <<options, http_calls, response, log>>

GetString == \E name \in Names : Finish("get_string", name, get_string(options, name))
GetInteger == \E name \in Names : Finish("get_integer", name, get_integer(options, name))
GetBool == \E name \in Names : Finish("get_bool", name, get_bool(options, name))
GetUser == \E name \in Names : Finish("get_user", name, get_user(options, name))
GetChannel == \E name \in Names : Finish("get_channel", name, get_channel(options, name))
GetRole == \E name \in Names : Finish("get_role", name, get_role(options, name))
GetNumber == \E name \in Names : Finish("get_number", name, get_number(options, name))
GetAttachment ==
  \E name \in Names : Finish("get_attachment", name, get_attachment(options, name))
GetSubcommand == Finish("get_subcommand", "none", get_subcommand(options))
GetSubcommandGroup == Finish("get_subcommand_group", "none", get_subcommand_group(options))

\* reply, line 26: create_interaction_response is called and awaited.
ReplyCall ==
  /\ pc = "idle"
  /\ pc' = "awaiting"
  /\ op' = "reply"
  /\ http_calls' = http_calls + 1
  /\ UNCHANGED <<options, arg, result, response, log>>

\* reply, lines 26-32: the awaited call resolves to Ok or Err; an Err is
\* logged; reply returns.
ReplyResume ==
  /\ pc = "awaiting"
  /\ \E resp \in {"Ok", "Err"} :
       /\ response' = resp
       /\ log' = log \o ReplyLog(resp)
       /\ IF ReplyRetries(resp)
          THEN /\ pc' = "awaiting"
               /\ http_calls' = http_calls + 1
               /\ UNCHANGED result
          ELSE /\ pc' = "done"
               /\ result' = ReplyResult(resp)
               /\ UNCHANGED http_calls
  /\ UNCHANGED <<options, op, arg>>

Next ==
  \/ GetString
  \/ GetInteger
  \/ GetBool
  \/ GetUser
  \/ GetChannel
  \/ GetRole
  \/ GetNumber
  \/ GetAttachment
  \/ GetSubcommand
  \/ GetSubcommandGroup
  \/ ReplyCall
  \/ ReplyResume

Spec == Init /\ [][Next]_vars

----------------------------------------------------------------------------
(* Vocabulary of the properties                                            *)

\* The kind each named-lookup accessor is documented to resolve.
AccessorKind ==
  [ get_string |-> "String", get_integer |-> "Integer", get_bool |-> "Boolean",
    get_user |-> "User", get_channel |-> "Channel", get_role |-> "Role",
    get_number |-> "Number", get_attachment |-> "Attachment" ]

\* A named-lookup accessor has been called with name arg and has ended.
Looked == pc = "done" /\ op \in DOMAIN AccessorKind

Wanted == AccessorKind[op]

\* The positions in list of the options with the given name and kind.
Candidates(list, name, kind) ==
  { i \in 1..Len(list) : list[i].name = name /\ list[i].kind = kind }

Lowest(S) == CHOOSE i \in S : \A j \in S : i <= j

\* The documented lookup over one list: the first option of the requested
\* name and kind decides.  Absent when there is none or when its resolved value
\* carries another tag, a panic when it carries no resolved value, otherwise
\* its payload.
LookupOver(list, name, kind) ==
  LET found == Candidates(list, name, kind)
  IN IF found = {} THEN Returned(None)
     ELSE LET o == list[Lowest(found)]
          IN IF ~o.resolved.is_some THEN Panicked(NoResolved)
             ELSE IF o.resolved.value.tag # kind THEN Returned(None)
             ELSE Returned(Some(o.resolved.value.payload))

\* The payloads of the resolved values carried by the options of list.
Carried(list) ==
  { list[i].resolved.value.payload :
      i \in { j \in 1..Len(list) : list[j].resolved.is_some } }

\* The option of list with the given name and kind carries a value of that kind.
Offers(list, name, kind) ==
  \E i \in Candidates(list, name, kind) :
    list[i].resolved.is_some /\ list[i].resolved.value.tag = kind

RECURSIVE Flatten(_)

\* Every option of the tree, at any depth.
Flatten(list) ==
  IF list = <<>> THEN {}
  ELSE {list[1]} \cup Flatten(list[1].options) \cup Flatten(Tail(list))

FirstIs(kind) == Len(options) > 0 /\ options[1].kind = kind

TopLevel(kind) == { i \in 1..Len(options) : options[i].kind = kind }

\* The first top-level option is a SubCommandGroup with at least one child.
GroupWithChild == FirstIs(SubCommandGroup) /\ Len(options[1].options) > 0

\* The effective options list of section 4.1, where it is defined.
HasEffective == ~FirstIs(SubCommandGroup) \/ GroupWithChild

Effective ==
  IF FirstIs(SubCommand) THEN options[1].options
  ELSE IF FirstIs(SubCommandGroup) THEN options[1].options[1].options
  ELSE options

----------------------------------------------------------------------------
(* C1 - C4: where the named-lookup accessors search                        *)

\* C1: when the first top-level option is a SubCommand, every named-lookup
\* accessor ends exactly as the lookup over the children of that SubCommand,
\* and never returns the value of a sibling top-level option.
C1_SubCommandChildrenOnly ==
  (Looked /\ FirstIs(SubCommand)) =>
     /\ result = LookupOver(options[1].options, arg, Wanted)
     /\ (result.outcome = "returned" /\ result.ret.is_some)
          => /\ result.ret.value \in Carried(options[1].options)
             /\ result.ret.value \notin Carried(options)

\* C1 witness: the SubCommand and a top-level sibling both offer the requested
\* name and kind, and the value returned is the one of the child.
C1_Witness ==
  /\ Looked /\ FirstIs(SubCommand)
  /\ Offers(options, arg, Wanted)
  /\ Offers(options[1].options, arg, Wanted)
  /\ result.outcome = "returned" /\ result.ret.is_some

NoStructuralTopLevel == TopLevel(SubCommand) \cup TopLevel(SubCommandGroup) = {}

\* C3 as stated: with no top-level SubCommand or SubCommandGroup, every
\* named-lookup accessor returns the resolved value of the first top-level
\* option of the requested kind and name, and absent when there is none.
C3_AsStated ==
  (Looked /\ NoStructuralTopLevel) =>
     LET found == Candidates(options, arg, Wanted)
     IN IF found = {} THEN result = Returned(None)
        ELSE /\ options[Lowest(found)].resolved.is_some
             /\ result = Returned(Some(options[Lowest(found)].resolved.value.payload))

\* C3 amended: with no top-level SubCommand or SubCommandGroup, every
\* named-lookup accessor searches exactly the top-level list.  The first
\* top-level option of the requested kind and name decides: the accessor
\* returns the payload of its resolved value when that value carries the
\* requested tag, absent when it carries another tag, and panics when the
\* option carries no resolved value; it returns absent when there is no such
\* option.
C3_TopLevelOnly ==
  (Looked /\ NoStructuralTopLevel) =>
     LET found == Candidates(options, arg, Wanted)
     IN IF found = {} THEN result = Returned(None)
        ELSE LET first == options[Lowest(found)].resolved
             IN CASE ~first.is_some -> result = Panicked(NoResolved)
                  [] first.is_some /\ first.value.tag # Wanted -> result = Returned(None)
                  [] OTHER -> result = Returned(Some(first.value.payload))

\* C3 witness: two top-level options have the requested kind and name, and
\* the value of the first is returned.
C3_Witness ==
  /\ Looked /\ NoStructuralTopLevel
  /\ Cardinality(Candidates(options, arg, Wanted)) > 1
  /\ result.outcome = "returned" /\ result.ret.is_some
  /\ result.ret.value
       = options[Lowest(Candidates(options, arg, Wanted))].resolved.value.payload

\* C4: a name that occurs in the effective options list only under kinds
\* other than the requested one yields absent, and a value an accessor
\* returns always comes from a resolved value tagged with the kind of that
\* accessor.
C4_KindMismatchAbsent ==
  Looked =>
     /\ ( /\ HasEffective
          /\ \E i \in 1..Len(Effective) : Effective[i].name = arg
          /\ Candidates(Effective, arg, Wanted) = {} )
          => result = Returned(None)
     /\ (result.outcome = "returned" /\ result.ret.is_some)
          => \E o \in Flatten(options) :
               /\ o.resolved = Some([tag |-> Wanted, payload |-> result.ret.value])
               /\ o.kind = Wanted

\* C4 witness: the requested name is in the effective list under another
\* kind, with a resolved value, and the accessor returns absent.
C4_Witness ==
  /\ Looked /\ HasEffective
  /\ Candidates(Effective, arg, Wanted) = {}
  /\ \E i \in 1..Len(Effective) :
       Effective[i].name = arg /\ Effective[i].resolved.is_some
  /\ result = Returned(None)

----------------------------------------------------------------------------
(* C5, C6: the subcommand accessors                                        *)

\* C5: get_subcommand returns the first top-level SubCommand when there is
\* one; otherwise the first SubCommand among the children of the first
\* top-level SubCommandGroup when there is one; otherwise absent.
C5_SubcommandSearchOrder ==
  (pc = "done" /\ op = "get_subcommand") =>
     LET top == TopLevel(SubCommand)
         groups == TopLevel(SubCommandGroup)
     IN IF top # {} THEN result = Returned(Some(options[Lowest(top)]))
        ELSE IF groups = {} THEN result = Returned(None)
        ELSE LET children == options[Lowest(groups)].options
                 inner == { i \in 1..Len(children) : children[i].kind = SubCommand }
             IN IF inner # {} THEN result = Returned(Some(children[Lowest(inner)]))
                ELSE result = Returned(None)

\* C5 witness: a SubCommandGroup that holds a SubCommand comes before a
\* top-level SubCommand, and the top-level one is returned.
C5_Witness ==
  /\ pc = "done" /\ op = "get_subcommand"
  /\ FirstIs(SubCommandGroup)
  /\ \E i \in 1..Len(options[1].options) : options[1].options[i].kind = SubCommand
  /\ \E i \in TopLevel(SubCommand) :
       result = Returned(Some(options[i]))

\* C6: get_subcommand_group returns the first top-level SubCommandGroup, and
\* absent when no top-level option is a SubCommandGroup, wherever else in the
\* tree one occurs.
C6_GroupTopLevelOnly ==
  (pc = "done" /\ op = "get_subcommand_group") =>
     LET groups == TopLevel(SubCommandGroup)
     IN IF groups = {} THEN result = Returned(None)
        ELSE result = Returned(Some(options[Lowest(groups)]))

\* C6 witness: a SubCommandGroup occurs only nested inside another option,
\* and absent is returned.
C6_Witness ==
  /\ pc = "done" /\ op = "get_subcommand_group"
  /\ TopLevel(SubCommandGroup) = {}
  /\ \E o \in Flatten(options) : o.kind = SubCommandGroup
  /\ result = Returned(None)

----------------------------------------------------------------------------
(* C7, C9: panics                                                          *)

\* Every option that is neither SubCommand nor SubCommandGroup carries a
\* resolved value.
AllResolved ==
  \A o \in Flatten(options) : o.kind \notin StructuralKinds => o.resolved.is_some

\* C7: when every value option of the interaction carries a resolved value,
\* no named-lookup accessor panics.
C7_NoPanicWhenResolved ==
  (Looked /\ AllResolved) => result.outcome = "returned"

\* C9: when the first option of the effective list with the requested kind
\* and name carries no resolved value, the accessor panics, whatever follows
\* that option in the list.
C9_PanicOnMissingResolved ==
  ( /\ Looked /\ HasEffective
    /\ Candidates(Effective, arg, Wanted) # {}
    /\ ~Effective[Lowest(Candidates(Effective, arg, Wanted))].resolved.is_some )
    => result = Panicked(NoResolved)

\* C9 witness: the first matching option has no resolved value, a later
\* matching option has one, and the accessor has panicked.
C9_Witness ==
  /\ Looked /\ HasEffective
  /\ Candidates(Effective, arg, Wanted) # {}
  /\ ~Effective[Lowest(Candidates(Effective, arg, Wanted))].resolved.is_some
  /\ Offers(Effective, arg, Wanted)
  /\ result = Panicked(NoResolved)

----------------------------------------------------------------------------
(* C8: reply                                                               *)

\* C8: reply calls create_interaction_response exactly once and then returns
\* Ok(()) whether the call succeeded or failed; a failure is logged once, and
\* is neither propagated nor retried.
C8_ReplySwallowsFailure ==
  /\ http_calls <= 1
  /\ (op = "reply" /\ pc = "awaiting") => (http_calls = 1 /\ log = <<>>)
  /\ (op = "reply" /\ pc = "done") =>
        /\ http_calls = 1
        /\ result = Returned(OkUnit)
        /\ response \in {"Ok", "Err"}
        /\ Len(log) = (IF response = "Err" THEN 1 ELSE 0)

\* C8 witness: the call failed, one line was logged, reply returned Ok(()).
C8_Witness ==
  /\ op = "reply" /\ pc = "done"
  /\ response = "Err"
  /\ Len(log) = 1
  /\ result = Returned(OkUnit)

----------------------------------------------------------------------------
(* C10: get_subcommand against the named-lookup accessors                  *)

\* C10 as stated: whenever get_subcommand returns an option S, every
\* named-lookup accessor ends as the lookup over the children of S.
C10_AsStated ==
  (Looked /\ get_subcommand(options).ret.is_some) =>
     result = LookupOver(get_subcommand(options).ret.value.options, arg, Wanted)

\* The first top-level option is a SubCommand; or it is a SubCommandGroup whose
\* first child is a SubCommand, and no top-level option is a SubCommand.
SubcommandLeads ==
  \/ FirstIs(SubCommand)
  \/ /\ GroupWithChild
     /\ options[1].options[1].kind = SubCommand
     /\ TopLevel(SubCommand) = {}

\* C10 amended: when the first top-level option is a SubCommand, or is a
\* SubCommandGroup whose first child is a SubCommand while no top-level option
\* is a SubCommand, get_subcommand returns an option S and every named-lookup
\* accessor ends as the lookup over the children of S.
C10_SubcommandIsSearched ==
  (Looked /\ SubcommandLeads) =>
     /\ get_subcommand(options).ret.is_some
     /\ result = LookupOver(get_subcommand(options).ret.value.options, arg, Wanted)

\* C10 witness: the first child of a leading SubCommandGroup is a SubCommand,
\* and the accessor returns a value held by that SubCommand.
C10_Witness ==
  /\ Looked /\ SubcommandLeads /\ FirstIs(SubCommandGroup)
  /\ result.outcome = "returned" /\ result.ret.is_some

====
